---- MODULE Spec2Model ----
(***************************************************************************)
(* img2kvm: one run of src/main.rs.  The state is the file system the run  *)
(* works on, the locals of run(), and the process's observable outcome     *)
(* (exit status, diagnostics).  File names are sequences of characters so  *)
(* that Path::extension, Path::file_stem and str::to_lowercase are         *)
(* computed, not assumed.                                                  *)
(***************************************************************************)
EXTENDS Integers, Sequences, FiniteSets, TLC

VARIABLES
    arg,            \* parameter.image_name as given: [form, dir, name]
    cwdOk,          \* env::current_dir() succeeds
    fs,             \* the file system: path |-> [kind, len]
    pc,             \* position in main/run
    image_path,     \* canonical path of the input (line 55)
    extension,      \* lowercased extension (line 57-61)
    handler,        \* match arm taken at line 64-75
    is_image_file,  \* line 63 / 71
    processed_image_path, \* line 64
    buffer,         \* Vec<u8> filled by read_to_end, in blocks
    dec_image_path, \* image_path local to the decompress_* function
    vmdisk_name,    \* line 77
    qemuArgs,       \* the two path arguments of the qemu-img command
    status,         \* outcome of each phase
    invoked,        \* the phases started, in order
    created,        \* paths File::create was applied to successfully
    removed,        \* paths fs::remove_file removed
    fs0,            \* the file system at program start
    err,            \* which `?` / bail! ended run
    stderr,         \* number of diagnostics written to the error stream
    exit            \* process exit status, -1 while running

vars == <<arg, cwdOk, fs, pc, image_path, extension, handler, is_image_file,
          processed_image_path, buffer, dec_image_path, vmdisk_name, qemuArgs,
          status, invoked, created, removed, fs0, err, stderr, exit>>

-----------------------------------------------------------------------------
(* Bounds of the model *)

\* largest decoded payload, in blocks
MaxPayload == 2
\* largest number of entries of a zip archive
MaxEntries == 2

-----------------------------------------------------------------------------
(* Characters and strings *)

Uppers == <<"A","B","C","D","E","F","G","H","I","J","K","L","M",
            "N","O","P","Q","R","S","T","U","V","W","X","Y","Z">>
Lowers == <<"a","b","c","d","e","f","g","h","i","j","k","l","m",
            "n","o","p","q","r","s","t","u","v","w","x","y","z">>

ToLowerChar(c) ==
    IF \E i \in 1..Len(Uppers) : Uppers[i] = c
    THEN Lowers[CHOOSE i \in 1..Len(Uppers) : Uppers[i] = c]
    ELSE c

ToUpperChar(c) ==
    IF \E i \in 1..Len(Lowers) : Lowers[i] = c
    THEN Uppers[CHOOSE i \in 1..Len(Lowers) : Lowers[i] = c]
    ELSE c

\* the extension compared as written, without lowercasing
to_lowercase_skipped(s) == s

\* str::to_lowercase
to_lowercase(s) == [i \in 1..Len(s) |-> ToLowerChar(s[i])]

None == [some |-> FALSE, val |-> <<>>]
Some(v) == [some |-> TRUE, val |-> v]

\* Index of the last '.' of a file name, 0 if there is none
LastDot(file) ==
    IF \E i \in 1..Len(file) : file[i] = "."
    THEN CHOOSE i \in 1..Len(file) :
            file[i] = "." /\ \A j \in (i+1)..Len(file) : file[j] # "."
    ELSE 0

\* std::path rsplit_file_at_dot, as used by Path::extension and Path::file_stem
rsplit_file_at_dot(file) ==
    IF file = <<".", ".">> THEN [before |-> Some(file), after |-> None]
    ELSE IF LastDot(file) = 0 THEN [before |-> None, after |-> Some(file)]
    ELSE IF LastDot(file) = 1 THEN [before |-> Some(file), after |-> None]
    ELSE [before |-> Some(SubSeq(file, 1, LastDot(file) - 1)),
          after  |-> Some(SubSeq(file, LastDot(file) + 1, Len(file)))]

\* Path::extension: before.and(after)
PathExtension(file) ==
    IF rsplit_file_at_dot(file).before.some
    THEN rsplit_file_at_dot(file).after
    ELSE None

\* Path::file_prefix in place of file_stem: the name up to its first '.'
file_prefix(file) ==
    IF \E i \in 2..Len(file) : file[i] = "."
    THEN Some(SubSeq(file, 1,
              (CHOOSE i \in 2..Len(file) :
                  file[i] = "." /\ \A j \in 2..(i-1) : file[j] # ".") - 1))
    ELSE Some(file)

\* Path::file_stem: before.or(after)
file_stem(file) ==
    IF rsplit_file_at_dot(file).before.some
    THEN rsplit_file_at_dot(file).before
    ELSE rsplit_file_at_dot(file).after

\* lines 57-61: extension().and_then(to_str).map(to_lowercase)
LowerExtension(file) ==
    IF PathExtension(file).some
    THEN Some(to_lowercase(PathExtension(file).val))
    ELSE None

-----------------------------------------------------------------------------
(* The match of lines 64-75 *)

Ext_bz2   == <<"b","z","2">>
Ext_bzip2 == <<"b","z","i","p","2">>
Ext_gz    == <<"g","z">>
Ext_lzma  == <<"l","z","m","a">>
Ext_xz    == <<"x","z">>
Ext_zip   == <<"z","i","p">>
Ext_img   == <<"i","m","g">>
Ext_iso   == <<"i","s","o">>
Ext_7z    == <<"7","z">>

MatchExtension(ext) ==
    CASE ext \in {Ext_bz2, Ext_bzip2} -> "bz2"
      [] ext = Ext_gz                 -> "gz"
      [] ext = Ext_lzma               -> "lzma"
      [] ext = Ext_xz                 -> "xz"
      [] ext = Ext_zip                -> "zip"
      [] ext \in {Ext_img, Ext_iso}   -> "raw"
      [] OTHER                        -> "unsupported"

Buffered == {"bz2", "gz", "lzma", "xz"}
Compressed == Buffered \cup {"zip"}

-----------------------------------------------------------------------------
(* Paths and inputs *)

WorkDir == "work"
SrcDir  == "src"

\* "img2kvm_temp.qcow2", line 77
TempName == <<"i","m","g","2","k","v","m","_","t","e","m","p",
              ".","q","c","o","w","2">>

Path(dir, name) == [dir |-> dir, name |-> name]

\* PathBuf::join of a directory and a single component
Join(dir, name) == Path(dir, name)

\* all spellings of s in upper and lower case
CaseVariants(s) ==
    { v \in [1..Len(s) -> {s[i] : i \in 1..Len(s)} \cup
                          {ToUpperChar(s[i]) : i \in 1..Len(s)}] :
        \A i \in 1..Len(s) : v[i] \in {s[i], ToUpperChar(s[i])} }

SupportedExts == {Ext_bz2, Ext_bzip2, Ext_gz, Ext_lzma, Ext_xz, Ext_zip,
                  Ext_img, Ext_iso}

InputExts ==
    UNION {CaseVariants(e) : e \in SupportedExts \cup {Ext_7z}}
    \cup { <<"t","a","r">>, <<"q","c","o","w","2">>, <<"g","z","z">>,
           <<"g">>, <<>> }

InputStems == { <<"f">>, <<"f",".","t">>, TempName, <<".">>, <<>> }

InputNames ==
    ({ s \o <<".">> \o e : s \in InputStems, e \in InputExts }
       \ { <<".">>, <<".", ".">> })
    \cup { <<"g","z">>, <<"f">> }

Inputs ==
    { [form |-> "rel", dir |-> WorkDir, name |-> n] : n \in InputNames }
    \cup { [form |-> "abs", dir |-> d, name |-> n] :
             d \in {WorkDir, SrcDir}, n \in InputNames }

NoPath == Path("", <<>>)

Exists(f, p) == p \in DOMAIN f

\* the file system f with file p holding c
WithFile(f, p, c) == [q \in DOMAIN f \cup {p} |-> IF q = p THEN c ELSE f[q]]

\* the file system f without file p
WithoutFile(f, p) == [q \in DOMAIN f \ {p} |-> f[q]]

Source  == [kind |-> "source", len |-> 1]
Stale   == [kind |-> "stale", len |-> 1]
Qcow2   == [kind |-> "qcow2", len |-> 1]
Raw(n)  == [kind |-> "raw", len |-> n]

EmptyFs == [q \in {} |-> Source]

Phases == <<"canonicalize", "classify", "decompress", "convert", "import",
            "cleanup">>

-----------------------------------------------------------------------------
(* Initial state: the program is started with some image name, in some     *)
(* working directory; the named file may be missing, and a file may        *)
(* already sit where the decompressed image is going to be written.        *)

Init ==
    /\ arg \in Inputs
    /\ cwdOk \in BOOLEAN
    /\ \E srcExists \in BOOLEAN, preOut \in BOOLEAN :
         LET f1 == IF srcExists
                   THEN WithFile(EmptyFs, Path(arg.dir, arg.name), Source)
                   ELSE EmptyFs
             out == Path(WorkDir, file_stem(arg.name).val)
         IN  fs = IF preOut /\ ~Exists(f1, out)
                  THEN WithFile(f1, out, Stale) ELSE f1
    /\ fs0 = fs
    /\ pc = "canonicalize"
    /\ image_path = NoPath
    /\ extension = None
    /\ handler = "none"
    /\ is_image_file = FALSE
    /\ processed_image_path = NoPath
    /\ buffer = 0
    /\ dec_image_path = NoPath
    /\ vmdisk_name = NoPath
    /\ qemuArgs = <<>>
    /\ status = [p \in {Phases[i] : i \in 1..Len(Phases)} |-> "none"]
    /\ invoked = <<>>
    /\ created = {}
    /\ removed = {}
    /\ err = "none"
    /\ stderr = 0
    /\ exit = -1

-----------------------------------------------------------------------------
(* Control flow helpers *)

\* a `?` or bail! in run: the error travels up to main
FailWith(kind, phase, outcome) ==
    /\ pc' = "err"
    /\ err' = kind
    /\ status' = [status EXCEPT ![phase] = outcome]
    /\ UNCHANGED <<stderr, exit>>

Fail(kind, phase) == FailWith(kind, phase, "failed")

\* Lazy::new(|| env::current_dir().expect(..)) panics, line 38
Panic(phase) ==
    /\ pc' = "exit"
    /\ err' = "panic"
    /\ status' = [status EXCEPT ![phase] = "failed"]
    /\ stderr' = stderr + 1
    /\ exit' = 101

\* the exit status of a spawned child left unchecked
QemuStatusIgnored(outcome) == TRUE
QmStatusIgnored(outcome) == TRUE

\* ExitStatus::success(), lines 92 and 108
QemuSuccess(outcome) == outcome = "ok"
QmSuccess(outcome) == outcome = "ok"

\* the decompressed image never removed / the image always removed
ImageRemovalNever(isImage) == FALSE
ImageRemovalAlways(isImage) == TRUE

\* line 118: if !is_image_file
NeedsImageRemoval(isImage) == ~isImage

\* main without the exit(1)
MainExitZero(result) == 0

\* lines 43-46: the process's exit status for run's result
MainExit(result) == IF result = "ok" THEN 0 ELSE 1

-----------------------------------------------------------------------------
(* run, lines 49-124 *)

\* lines 50-55
Canonicalize ==
    /\ pc = "canonicalize"
    /\ IF Exists(fs, Path(arg.dir, arg.name)) /\ (arg.form = "rel" => cwdOk)
       THEN /\ image_path' = Path(arg.dir, arg.name)
            /\ pc' = "extension"
            /\ status' = [status EXCEPT !["canonicalize"] = "ok"]
            /\ UNCHANGED <<err, stderr, exit>>
       ELSE /\ Fail("canonicalize", "canonicalize")
            /\ UNCHANGED image_path
    /\ invoked' = Append(invoked, "canonicalize")
    /\ UNCHANGED <<arg, cwdOk, fs, extension, handler, is_image_file,
                   processed_image_path, buffer, dec_image_path, vmdisk_name,
                   qemuArgs, created, removed, fs0>>

\* lines 57-61
Extension ==
    /\ pc = "extension"
    /\ extension' = LowerExtension(image_path.name)
    /\ IF extension'.some
       THEN /\ pc' = "match"
            /\ UNCHANGED <<err, status, stderr, exit>>
       ELSE Fail("no_extension", "classify")
    /\ invoked' = Append(invoked, "classify")
    /\ UNCHANGED <<arg, cwdOk, fs, image_path, handler, is_image_file,
                   processed_image_path, buffer, dec_image_path, vmdisk_name,
                   qemuArgs, created, removed, fs0>>

\* lines 63-75
Match ==
    /\ pc = "match"
    /\ LET h == MatchExtension(extension.val) IN
         IF h = "unsupported"
         THEN /\ Fail("unsupported", "classify")
              /\ UNCHANGED <<handler, is_image_file, processed_image_path,
                             invoked>>
         ELSE IF h = "raw"
         THEN /\ handler' = h
              /\ is_image_file' = TRUE
              /\ processed_image_path' = image_path
              /\ status' = [status EXCEPT !["classify"] = "ok",
                                          !["decompress"] = "skipped"]
              /\ pc' = "vmdisk"
              /\ UNCHANGED <<err, stderr, exit, invoked>>
         ELSE /\ handler' = h
              /\ status' = [status EXCEPT !["classify"] = "ok"]
              /\ invoked' = Append(invoked, "decompress")
              /\ pc' = "open"
              /\ UNCHANGED <<err, stderr, exit, is_image_file,
                             processed_image_path>>
    /\ UNCHANGED <<arg, cwdOk, fs, image_path, extension, buffer,
                   dec_image_path, vmdisk_name, qemuArgs, created, removed,
                   fs0>>

-----------------------------------------------------------------------------
(* decompress_*_file, lines 126-242 *)

\* File::open and the decoder's construction:
\* lines 129-130, 152-153, 175-176, 198-199, 223
Open ==
    /\ pc = "open"
    /\ \E outcome \in {"ok", "open"} \cup
                      (IF handler = "lzma" THEN {"lzma_reader"} ELSE {}) :
         IF outcome = "ok"
         THEN /\ pc' = IF handler = "zip" THEN "zip_archive" ELSE "read"
              /\ UNCHANGED <<err, status, stderr, exit>>
         ELSE Fail(outcome, "decompress")
    /\ UNCHANGED <<arg, cwdOk, fs, image_path, extension, handler,
                   is_image_file, processed_image_path, buffer,
                   dec_image_path, vmdisk_name, qemuArgs, invoked, created,
                   removed, fs0>>

\* read_to_end into the buffer: lines 132-135, 155-158, 178-181, 201-204
ReadToEnd ==
    /\ pc = "read"
    /\ \E n \in 0..MaxPayload, ok \in BOOLEAN :
         /\ buffer' = n
         /\ IF ok
            THEN /\ pc' = "create"
                 /\ UNCHANGED <<err, status, stderr, exit>>
            ELSE Fail("decode", "decompress")
    /\ UNCHANGED <<arg, cwdOk, fs, image_path, extension, handler,
                   is_image_file, processed_image_path, dec_image_path,
                   vmdisk_name, qemuArgs, invoked, created, removed, fs0>>

\* ZipArchive::new, the len() == 0 check and by_index(0): lines 224-232
ZipFirstEntry ==
    /\ pc = "zip_archive"
    /\ \E outcome \in {"ok", "zip_archive", "zip_entry"},
          entries \in 0..MaxEntries :
         IF outcome = "zip_archive" THEN Fail("zip_archive", "decompress")
         ELSE IF entries = 0 THEN Fail("zip_empty", "decompress")
         ELSE IF outcome = "zip_entry" THEN Fail("zip_entry", "decompress")
         ELSE /\ pc' = "create"
              /\ UNCHANGED <<err, status, stderr, exit>>
    /\ UNCHANGED <<arg, cwdOk, fs, image_path, extension, handler,
                   is_image_file, processed_image_path, buffer,
                   dec_image_path, vmdisk_name, qemuArgs, invoked, created,
                   removed, fs0>>

\* file_stem, WORK_DIR.join and File::create:
\* lines 137-141, 160-164, 183-187, 206-212, 234-238
Create ==
    /\ pc = "create"
    /\ LET stem == file_stem(image_path.name) IN
         IF ~stem.some
         THEN /\ Fail("stem", "decompress")
              /\ UNCHANGED <<fs, dec_image_path, created>>
         ELSE IF ~cwdOk
         THEN /\ Panic("decompress")
              /\ UNCHANGED <<fs, dec_image_path, created>>
         ELSE \E permitted \in BOOLEAN :
                /\ dec_image_path' = Join(WorkDir, stem.val)
                /\ IF permitted /\ stem.val # <<".">>
                   THEN /\ fs' = WithFile(fs, dec_image_path', Raw(0))
                        /\ created' = created \cup {dec_image_path'}
                        /\ pc' = IF handler = "zip" THEN "copy" ELSE "write"
                        /\ UNCHANGED <<err, status, stderr, exit>>
                   ELSE /\ Fail("create", "decompress")
                        /\ UNCHANGED <<fs, created>>
    /\ UNCHANGED <<arg, cwdOk, image_path, extension, handler, is_image_file,
                   processed_image_path, buffer, vmdisk_name, qemuArgs,
                   invoked, removed, fs0>>

\* write_all(&buffer) and the return: lines 142-146, 165-169, 188-192, 213-217
WriteAll ==
    /\ pc = "write"
    /\ \E written \in 0..buffer :
         /\ fs' = WithFile(fs, dec_image_path, Raw(written))
         /\ IF written = buffer
            THEN /\ processed_image_path' = dec_image_path
                 /\ status' = [status EXCEPT !["decompress"] = "ok"]
                 /\ pc' = "vmdisk"
                 /\ UNCHANGED <<err, stderr, exit>>
            ELSE /\ Fail("write", "decompress")
                 /\ UNCHANGED processed_image_path
    /\ UNCHANGED <<arg, cwdOk, image_path, extension, handler, is_image_file,
                   buffer, dec_image_path, vmdisk_name, qemuArgs, invoked,
                   created, removed, fs0>>

\* std::io::copy(&mut entity, &mut extracted_file) and the return: lines 239-241
Copy ==
    /\ pc = "copy"
    /\ \E size \in 0..MaxPayload,
          outcome \in {"ok", "extract_read", "extract_write"} :
       \E written \in 0..size :
         /\ outcome = "ok" => written = size
         /\ outcome = "extract_write" => written < size
         /\ fs' = WithFile(fs, dec_image_path, Raw(written))
         /\ IF outcome = "ok"
            THEN /\ processed_image_path' = dec_image_path
                 /\ status' = [status EXCEPT !["decompress"] = "ok"]
                 /\ pc' = "vmdisk"
                 /\ UNCHANGED <<err, stderr, exit>>
            ELSE /\ Fail(outcome, "decompress")
                 /\ UNCHANGED processed_image_path
    /\ UNCHANGED <<arg, cwdOk, image_path, extension, handler, is_image_file,
                   buffer, dec_image_path, vmdisk_name, qemuArgs, invoked,
                   created, removed, fs0>>

-----------------------------------------------------------------------------
(* run, continued *)

\* line 77
Vmdisk ==
    /\ pc = "vmdisk"
    /\ IF ~cwdOk
       THEN /\ Panic("convert")
            /\ UNCHANGED vmdisk_name
       ELSE /\ vmdisk_name' = Join(WorkDir, TempName)
            /\ pc' = "convert"
            /\ UNCHANGED <<err, status, stderr, exit>>
    /\ UNCHANGED <<arg, cwdOk, fs, image_path, extension, handler,
                   is_image_file, processed_image_path, buffer,
                   dec_image_path, qemuArgs, invoked, created, removed, fs0>>

\* lines 79-96: qemu-img convert -f raw -O qcow2 <processed> <vmdisk>
Convert ==
    /\ pc = "convert"
    /\ invoked' = Append(invoked, "convert")
    /\ qemuArgs' = <<processed_image_path, vmdisk_name>>
    /\ \E outcome \in {"spawn_failed", "nonzero", "ok"}, wrote \in BOOLEAN :
         /\ outcome = "ok" => wrote
         /\ outcome = "spawn_failed" => ~wrote
         /\ fs' = IF wrote THEN WithFile(fs, vmdisk_name, Qcow2) ELSE fs
         /\ IF outcome = "spawn_failed"
            THEN FailWith("qemu_spawn", "convert", outcome)
            ELSE IF ~QemuSuccess(outcome)
            THEN FailWith("qemu_status", "convert", outcome)
            ELSE /\ status' = [status EXCEPT !["convert"] = outcome]
                 /\ pc' = "import"
                 /\ UNCHANGED <<err, stderr, exit>>
    /\ UNCHANGED <<arg, cwdOk, image_path, extension, handler, is_image_file,
                   processed_image_path, buffer, dec_image_path, vmdisk_name,
                   created, removed, fs0>>

\* lines 98-112: qm importdisk <vm_id> <vmdisk> <storage>
Import ==
    /\ pc = "import"
    /\ invoked' = Append(invoked, "import")
    /\ \E outcome \in {"spawn_failed", "nonzero", "ok"} :
         IF outcome = "spawn_failed"
         THEN FailWith("qm_spawn", "import", outcome)
         ELSE IF ~QmSuccess(outcome)
         THEN FailWith("qm_status", "import", outcome)
         ELSE /\ status' = [status EXCEPT !["import"] = outcome]
              /\ pc' = "rm_qcow2"
              /\ UNCHANGED <<err, stderr, exit>>
    /\ UNCHANGED <<arg, cwdOk, fs, image_path, extension, handler,
                   is_image_file, processed_image_path, buffer,
                   dec_image_path, vmdisk_name, qemuArgs, created, removed,
                   fs0>>

\* lines 114-116
RemoveQcow2 ==
    /\ pc = "rm_qcow2"
    /\ invoked' = Append(invoked, "cleanup")
    /\ \E permitted \in BOOLEAN :
         IF permitted /\ Exists(fs, vmdisk_name)
         THEN /\ fs' = WithoutFile(fs, vmdisk_name)
              /\ removed' = removed \cup {vmdisk_name}
              /\ pc' = "rm_image"
              /\ UNCHANGED <<err, status, stderr, exit>>
         ELSE /\ Fail("rm_qcow2", "cleanup")
              /\ UNCHANGED <<fs, removed>>
    /\ UNCHANGED <<arg, cwdOk, image_path, extension, handler, is_image_file,
                   processed_image_path, buffer, dec_image_path, vmdisk_name,
                   qemuArgs, created, fs0>>

\* lines 118-123
RemoveImage ==
    /\ pc = "rm_image"
    /\ IF NeedsImageRemoval(is_image_file)
       THEN \E permitted \in BOOLEAN :
              IF permitted /\ Exists(fs, processed_image_path)
              THEN /\ fs' = WithoutFile(fs, processed_image_path)
                   /\ removed' = removed \cup {processed_image_path}
                   /\ status' = [status EXCEPT !["cleanup"] = "ok"]
                   /\ pc' = "ok"
                   /\ UNCHANGED <<err, stderr, exit>>
              ELSE /\ Fail("rm_image", "cleanup")
                   /\ UNCHANGED <<fs, removed>>
       ELSE /\ status' = [status EXCEPT !["cleanup"] = "ok"]
            /\ pc' = "ok"
            /\ UNCHANGED <<fs, removed, err, stderr, exit>>
    /\ UNCHANGED <<arg, cwdOk, image_path, extension, handler, is_image_file,
                   processed_image_path, buffer, dec_image_path, vmdisk_name,
                   qemuArgs, invoked, created, fs0>>

-----------------------------------------------------------------------------
(* main, lines 40-47 *)

\* lines 43-46: if let Err(e) = run(..) { eprintln!; exit(1) }
MainErr ==
    /\ pc = "err"
    /\ stderr' = stderr + 1
    /\ exit' = MainExit("err")
    /\ pc' = "exit"
    /\ UNCHANGED <<arg, cwdOk, fs, image_path, extension, handler,
                   is_image_file, processed_image_path, buffer,
                   dec_image_path, vmdisk_name, qemuArgs, status, invoked,
                   created, removed, fs0, err>>

\* line 47: main returns after run returned Ok(())
MainOk ==
    /\ pc = "ok"
    /\ exit' = MainExit("ok")
    /\ pc' = "exit"
    /\ UNCHANGED <<arg, cwdOk, fs, image_path, extension, handler,
                   is_image_file, processed_image_path, buffer,
                   dec_image_path, vmdisk_name, qemuArgs, status, invoked,
                   created, removed, fs0, err, stderr>>

Next ==
    \/ Canonicalize
    \/ Extension
    \/ Match
    \/ Open
    \/ ReadToEnd
    \/ ZipFirstEntry
    \/ Create
    \/ WriteAll
    \/ Copy
    \/ Vmdisk
    \/ Convert
    \/ Import
    \/ RemoveQcow2
    \/ RemoveImage
    \/ MainErr
    \/ MainOk

Spec == Init /\ [][Next]_vars

TypeOK ==
    /\ pc \in {"canonicalize", "extension", "match", "open", "read",
               "zip_archive", "create", "write", "copy", "vmdisk", "convert",
               "import", "rm_qcow2", "rm_image", "ok", "err", "exit"}
    /\ exit \in {-1, 0, 1, 101}
    /\ stderr \in 0..1
    /\ buffer \in 0..MaxPayload

-----------------------------------------------------------------------------
(* Properties *)

Index(phase) == CHOOSE i \in 1..Len(Phases) : Phases[i] = phase
Succeeded(phase) ==
    status[phase] = "ok" \/ (phase = "decompress" /\ status[phase] = "skipped")
Started(phase) == \E i \in 1..Len(invoked) : invoked[i] = phase
TempPath == Path(WorkDir, TempName)
ExternalErrors == {"qemu_spawn", "qemu_status", "qm_spawn", "qm_status"}

\* name ends in '.' followed by a spelling of e in any letter case, with a
\* non-empty part before that '.'
HasExtension(name, e) ==
    /\ Len(name) > Len(e) + 1
    /\ name[Len(name) - Len(e)] = "."
    /\ \A i \in 1..Len(e) :
          name[Len(name) - Len(e) + i] \in {e[i], ToUpperChar(e[i])}

\* the table of spec section 4.1
ExpectedHandler(name) ==
    CASE HasExtension(name, Ext_bz2) \/ HasExtension(name, Ext_bzip2) -> "bz2"
      [] HasExtension(name, Ext_gz)   -> "gz"
      [] HasExtension(name, Ext_lzma) -> "lzma"
      [] HasExtension(name, Ext_xz)   -> "xz"
      [] HasExtension(name, Ext_zip)  -> "zip"
      [] HasExtension(name, Ext_img) \/ HasExtension(name, Ext_iso) -> "raw"
      [] OTHER -> "none"

Classified ==
    status["canonicalize"] = "ok" /\ pc \notin {"extension", "match"}

\* C1: a phase starts only if every earlier phase succeeded, in the order
\* classification, decompression (optional), qemu-img, qm, cleanup: the
\* phases start in that order, each one only after all phases before it
\* succeeded (decompression may have been skipped), and no file is removed
\* unless qm exited successfully.
C1_PhasesInOrder ==
    /\ \A i, j \in 1..Len(invoked) :
          i < j => Index(invoked[i]) < Index(invoked[j])
    /\ \A i \in 1..Len(invoked) :
          \A k \in 1..(Index(invoked[i]) - 1) : Succeeded(Phases[k])
    /\ Started("convert") =>
          /\ handler \in Compressed \cup {"raw"}
          /\ handler \in Compressed => status["decompress"] = "ok"
    /\ Started("import") => status["convert"] = "ok"
    /\ removed # {} => status["import"] = "ok" /\ Started("cleanup")

C1_Witness ==
    /\ invoked = Phases
    /\ removed # {}
    /\ handler \in Compressed

C3_DocumentedExtensionsSupported ==
    (/\ Classified
     /\ \E e \in {Ext_7z, Ext_bz2, Ext_bzip2, Ext_gz, Ext_lzma, Ext_xz,
                  Ext_zip} : HasExtension(image_path.name, e))
    => /\ err \notin {"unsupported", "no_extension"}
       /\ handler \in Compressed
       /\ Started("decompress")

\* C4: for every compressed format the output file is created only after the
\* whole payload was decoded: when decoding fails, no file was created or
\* truncated at the output path and the file system is as it was.
DecodeErrors ==
    {"lzma_reader", "decode", "zip_archive", "zip_empty", "zip_entry",
     "extract_read"}

C4_NoOutputOnDecodeFailure ==
    (handler \in Compressed /\ err \in DecodeErrors)
    => /\ created = {}
       /\ fs = fs0

\* C5: when run returns Ok (exit status 0), img2kvm_temp.qcow2 no longer
\* exists, and neither does the decompressed file of a compressed input.
C5_TemporariesRemovedOnSuccess ==
    (pc = "ok" \/ exit = 0)
    => /\ ~Exists(fs, TempPath)
       /\ handler \in Compressed =>
             /\ created # {}
             /\ \A p \in created : ~Exists(fs, p)
             /\ ~Exists(fs, processed_image_path)

C5_Witness ==
    /\ exit = 0
    /\ handler \in Compressed
    /\ created # {}
    /\ removed = created \cup {TempPath}

\* C6: for img and iso nothing is decompressed, qemu-img is given the
\* canonical input path, and cleanup removes only img2kvm_temp.qcow2: the
\* source image is still there, unchanged, after a successful run.
C6_RawPassThrough ==
    handler = "raw"
    => /\ created = {}
       /\ ~Started("decompress")
       /\ dec_image_path = NoPath
       /\ processed_image_path = Path(arg.dir, arg.name)
       /\ qemuArgs # <<>> =>
             qemuArgs = <<Path(arg.dir, arg.name), TempPath>>
       /\ removed \subseteq {TempPath}
       /\ exit = 0 =>
             /\ removed = {TempPath}
             /\ Exists(fs, Path(arg.dir, arg.name))
             /\ fs[Path(arg.dir, arg.name)] = fs0[Path(arg.dir, arg.name)]

C6_Witness ==
    /\ handler = "raw"
    /\ exit = 0
    /\ arg.dir = WorkDir

\* C7: when qemu-img or qm cannot be spawned or exits non-zero, run removes
\* nothing: the decompressed file and (after a qm failure) the converted disk
\* stay on disk, as does every file that was there before, and the run ends
\* with an error.
C7_NoRollback ==
    (\/ status["convert"] \in {"spawn_failed", "nonzero"}
     \/ status["import"] \in {"spawn_failed", "nonzero"})
    => /\ removed = {}
       /\ \A p \in created : Exists(fs, p)
       /\ DOMAIN fs0 \subseteq DOMAIN fs
       /\ status["import"] \in {"spawn_failed", "nonzero"} =>
             Exists(fs, TempPath)
       /\ err \in ExternalErrors
       /\ pc \in {"err", "exit"}
       /\ pc = "exit" => exit = 1 /\ stderr = 1

C7_Witness ==
    /\ status["import"] = "nonzero"
    /\ handler \in Compressed
    /\ pc = "exit"
    /\ Exists(fs, TempPath)
    /\ Exists(fs, processed_image_path)

\* C8: a run ends either with exit status 0, only after every phase
\* succeeded, or with a non-zero status and exactly one diagnostic, on the
\* first failure, after which no further phase is executed.
C8_TwoOutcomes ==
    /\ pc # "exit" => exit = -1 /\ stderr = 0 /\ ENABLED Next
    /\ pc = "exit" => exit \in {0, 1, 101}
    /\ exit = 0 =>
          /\ \A i \in 1..Len(Phases) : Succeeded(Phases[i])
          /\ err = "none"
          /\ stderr = 0
          /\ TempPath \in removed
          /\ ~is_image_file => processed_image_path \in removed
    /\ exit \in {1, 101} =>
          /\ stderr = 1
          /\ err # "none"
          /\ invoked # <<>>
          /\ \E i \in 1..Len(Phases) :
                /\ ~Succeeded(Phases[i])
                /\ status[Phases[i]] # "none"
                /\ \A k \in 1..(i-1) : Succeeded(Phases[k])
                /\ \A k \in (i+1)..Len(Phases) :
                      status[Phases[k]] = "none" /\ ~Started(Phases[k])

C8_Witness ==
    /\ exit = 1
    /\ stderr = 1
    /\ err = "qemu_status"
    /\ handler = "zip"

\* C9: the path returned by decompression is <working directory>/<stem>, the
\* source file name without its final extension, in the working directory
\* whatever the source's directory; at most one file is written by
\* decompression.
C9_OutputPath ==
    /\ Cardinality(created) <= 1
    /\ (handler \in Compressed /\ processed_image_path # NoPath) =>
          LET n == image_path.name
              s == processed_image_path.name
          IN  /\ processed_image_path.dir = WorkDir
              /\ created = {processed_image_path}
              /\ Len(s) >= 1
              /\ Len(s) < Len(n)
              /\ SubSeq(n, 1, Len(s)) = s
              /\ n[Len(s) + 1] = "."
              /\ \A j \in (Len(s) + 2)..Len(n) : n[j] # "."

C9_Witness ==
    /\ handler = "gz"
    /\ image_path = Path(SrcDir, <<"f", ".", "t", ".", "G", "z">>)
    /\ processed_image_path = Path(WorkDir, <<"f", ".", "t">>)

\* C10: for every accepted compressed input the decompressed file's path
\* differs from <working directory>/img2kvm_temp.qcow2, so qemu-img is never
\* given one file as source and target and the two removals never name the
\* same file.
C10_DistinctTemporaries ==
    (handler \in Compressed /\ processed_image_path # NoPath) =>
       /\ processed_image_path # TempPath
       /\ qemuArgs # <<>> => qemuArgs[1] # qemuArgs[2]
       /\ ~(err = "rm_image" /\ processed_image_path \in removed)

====
